---- MODULE Spec2Model ----
(***************************************************************************)
(* A model of the memory-map ledger of src/src/lib.rs: a fixed-capacity,   *)
(* sorted array of tagged half-open address ranges with the two public     *)
(* operations insert and find_free.  Addresses and offsets are counted in  *)
(* pages; the unsigned machine word is scaled down to 0..MaxAddr.          *)
(***************************************************************************)
EXTENDS Integers, Sequences, FiniteSets, TLC

\* Capacity of the ledger (the const generic N of Ledger<V, N>).
N == 3

\* Largest value of the (scaled-down) unsigned address word, in pages.
MaxAddr == 4

\* Number of values of the address word: arithmetic wraps modulo this.
Modulus == MaxAddr + 1

Addrs == 0 .. MaxAddr

\* The values of Option<V> for the unit type V = () of the tests.
Values == {"None", "Some"}

\* Line<Address<usize, Page>>: a half-open interval [start, end).
Line(s, e) == [start |-> s, end |-> e]

\* Region::new
Region(limits, value) == [limits |-> limits, value |-> value]

\* Region::empty, the sentinel that pre-fills the slots.
Empty == Region(Line(0, 0), "None")

\* Line::is_empty
IsEmpty(l) == l.start >= l.end

\* Line::intersection(..).is_some(): two half-open intervals share a point.
Intersects(a, b) ==
    LET s == IF a.start >= b.start THEN a.start ELSE b.start
        e == IF a.end <= b.end THEN a.end ELSE b.end
    IN  s < e

VARIABLES
    limits,          \* Ledger.limits
    regions,         \* Ledger.regions, the N slots
    len,             \* Ledger.len
    overflowChecks,  \* whether the build traps on integer overflow
    last             \* the last call: operation, arguments and returned value

vars == <<limits, regions, len, overflowChecks, last>>

----------------------------------------------------------------------------
(* Ledger::sort *)

\* A comparator with the operands of the final comparison exchanged.
CmpDescending(l, r) ==
    IF l.limits = r.limits THEN "Equal"
    ELSE IF IsEmpty(l.limits) THEN "Greater"
    ELSE IF IsEmpty(r.limits) THEN "Less"
    ELSE IF r.limits.start < l.limits.start THEN "Less"
    ELSE IF r.limits.start > l.limits.start THEN "Greater"
    ELSE "Equal"

\* The comparator handed to sort_unstable_by.
Cmp(l, r) ==
    IF l.limits = r.limits THEN "Equal"
    ELSE IF IsEmpty(l.limits) THEN "Greater"
    ELSE IF IsEmpty(r.limits) THEN "Less"
    ELSE IF l.limits.start < r.limits.start THEN "Less"
    ELSE IF l.limits.start > r.limits.start THEN "Greater"
    ELSE "Equal"

\* Insert x into the ordered sequence s, after the elements not greater.
RECURSIVE SortedInsert(_, _)
SortedInsert(s, x) ==
    IF s = <<>> THEN <<x>>
    ELSE IF Cmp(x, Head(s)) = "Less" THEN <<x>> \o s
    ELSE <<Head(s)>> \o SortedInsert(Tail(s), x)

RECURSIVE SortSlice(_)
SortSlice(s) ==
    IF s = <<>> THEN <<>>
    ELSE SortedInsert(SortSlice(SubSeq(s, 1, Len(s) - 1)), s[Len(s)])

\* self.sort(): orders the first n slots, leaves the other slots alone.
Sort(regs, n) ==
    LET sorted == SortSlice([k \in 1 .. n |-> regs[k]])
    IN  [k \in 1 .. N |-> IF k <= n THEN sorted[k] ELSE regs[k]]

----------------------------------------------------------------------------
(* Ledger::insert *)

\* Validity checks without the test for an empty or reversed range.
IsInvalidRegionLimitsOnly(lim, region) ==
    \/ region.limits.start < lim.start
    \/ region.limits.end > lim.end

\* Validity checks whose upper test also refuses a range that ends exactly
\* at the upper limit.
IsInvalidRegionStrictEnd(lim, region) ==
    \/ region.limits.start >= region.limits.end
    \/ region.limits.start < lim.start
    \/ region.limits.end >= lim.end

\* The two validity checks at the head of insert.
IsInvalidRegion(lim, region) ==
    \/ region.limits.start >= region.limits.end
    \/ region.limits.start < lim.start
    \/ region.limits.end > lim.end

\* An overlap test that only asks whether the new region starts inside r.
OverlappingStartOnly(r, region) ==
    r.limits.start <= region.limits.start /\ region.limits.start < r.limits.end

\* An overlap test on closed intervals: touching ranges count as overlapping.
OverlappingClosed(r, region) ==
    r.limits.start <= region.limits.end /\ region.limits.start <= r.limits.end

\* prev.limits.intersection(region.limits).is_some()
Overlapping(r, region) == Intersects(r.limits, region.limits)

\* A "merge previous" condition that compares the start of prev.
MergesPreviousAtStart(prev, region) ==
    prev.value = region.value /\ prev.limits.start = region.limits.start

\* The "merge previous" condition.
MergesPrevious(prev, region) ==
    prev.value = region.value /\ prev.limits.end = region.limits.start

\* A "merge next" condition that does not compare the tags.
MergesNextAnyTag(next, region) ==
    next.limits.start = region.limits.end

\* The "merge next" condition.
MergesNext(next, region) ==
    next.value = region.value /\ next.limits.start = region.limits.end

\* An early return: the ledger is as it was.
Returned(result, regs, n) == [result |-> result, regions |-> regs, len |-> n]

\* A scan that extends prev as soon as it qualifies for "merge previous",
\* before the peeked next has been tested for intersection.
RECURSIVE ScanEager(_, _, _, _)
ScanEager(regs, n, region, i) ==
    IF i > n THEN Returned("Continue", regs, n)
    ELSE
        LET prev == regs[i]
            hasNext == i + 1 <= n
            merged == IF MergesPrevious(prev, region)
                        THEN [regs EXCEPT ![i].limits.end = region.limits.end]
                        ELSE regs
        IN  IF Overlapping(prev, region)
                THEN Returned("Overlap", regs, n)
            ELSE IF hasNext /\ Overlapping(regs[i + 1], region)
                THEN Returned("Overlap", merged, n)
            ELSE IF MergesPrevious(prev, region)
                THEN Returned("Ok", merged, n)
            ELSE IF hasNext /\ MergesNext(regs[i + 1], region)
                THEN Returned("Ok",
                        [regs EXCEPT ![i + 1].limits.start = region.limits.start], n)
            ELSE ScanEager(regs, n, region, i + 1)

\* The while-let loop of insert at the element of index i (prev = regs[i],
\* next = the peeked regs[i + 1] when i < n).  "Continue" stands for the
\* loop running to its end without a return.
RECURSIVE Scan(_, _, _, _)
Scan(regs, n, region, i) ==
    IF i > n THEN Returned("Continue", regs, n)
    ELSE
        LET prev == regs[i]
            hasNext == i + 1 <= n
        IN  IF Overlapping(prev, region)
                THEN Returned("Overlap", regs, n)
            ELSE IF hasNext /\ Overlapping(regs[i + 1], region)
                THEN Returned("Overlap", regs, n)
            ELSE IF MergesPrevious(prev, region)
                THEN Returned("Ok",
                        [regs EXCEPT ![i].limits.end = region.limits.end], n)
            ELSE IF hasNext /\ MergesNext(regs[i + 1], region)
                THEN Returned("Ok",
                        [regs EXCEPT ![i + 1].limits.start = region.limits.start], n)
            ELSE Scan(regs, n, region, i + 1)

\* self.len < self.regions.len()
HasCapacity(n) == n < N

\* A tail that, when every slot is in use, overwrites the last slot.
AppendRegionOverwrite(regs, n, region) ==
    IF HasCapacity(n)
        THEN Returned("Ok", Sort([regs EXCEPT ![n + 1] = region], n + 1), n + 1)
        ELSE Returned("Ok", Sort([regs EXCEPT ![n] = region], n), n)

\* The tail of insert once the loop has ended: append and sort, or fail.
AppendRegion(regs, n, region) ==
    IF HasCapacity(n)
        THEN Returned("Ok", Sort([regs EXCEPT ![n + 1] = region], n + 1), n + 1)
        ELSE Returned("OutOfCapacity", regs, n)

\* insert(region) on the ledger (lim, regs, n): the result and the ledger after.
Insert(lim, regs, n, region) ==
    IF IsInvalidRegion(lim, region) THEN Returned("InvalidRegion", regs, n)
    ELSE
        LET s == Scan(regs, n, region, 1)
        IN  IF s.result = "Continue" THEN AppendRegion(regs, n, region) ELSE s

----------------------------------------------------------------------------
(* Address arithmetic on the unsigned word *)

\* a - b leaves the unsigned domain.
SubOverflows(a, b) == a < b

\* a + b leaves the unsigned domain.
AddOverflows(a, b) == a + b > MaxAddr

\* The wrapped results a build without overflow checks produces.
WrapSub(a, b) == (a - b) % Modulus
WrapAdd(a, b) == (a + b) % Modulus

----------------------------------------------------------------------------
(* Ledger::find_free *)

\* The zero-width markers at the two bounds of the ledger.
StartMarker(lim) == Region(Line(lim.start, lim.start), "None")
EndMarker(lim) == Region(Line(lim.end, lim.end), "None")

\* The chained iterator: first.windows(2), regions().windows(2),
\* last.windows(2), as a sequence of <<l, r>> pairs.
Windows(lim, regs, n) ==
    LET first == <<StartMarker(lim), IF n > 0 THEN regs[1] ELSE EndMarker(lim)>>
        final == <<IF n > 0 THEN regs[n] ELSE StartMarker(lim), EndMarker(lim)>>
        inner == [k \in 1 .. (IF n > 1 THEN n - 1 ELSE 0) |-> <<regs[k], regs[k + 1]>>]
    IN  <<first>> \o inner \o <<final>>

\* iter.rev()
Reverse(s) == [k \in 1 .. Len(s) |-> s[Len(s) + 1 - k]]

\* The span of a window that is compared with the requested length:
\* r.limits.end - l.limits.start.
Span(l, r) == WrapSub(r.limits.end, l.limits.start)

\* The acceptance test of a window: r.limits.end - l.limits.start > len.
Accepts(l, r, length) == Span(l, r) > length

\* Span::new(start, len).into(): the line [start, start + len).
SpanLine(start, length) == Line(start, WrapAdd(start, length))

\* The value returned for an accepted window, front search.
FrontLocation(l, r, length) == SpanLine(l.limits.end, length)

\* The value returned for an accepted window, back search.
BackLocation(l, r, length) == SpanLine(WrapSub(r.limits.start, length), length)

\* Whether returning the location of an accepted window overflows.
LocationOverflows(l, r, length, front) ==
    IF front THEN AddOverflows(l.limits.end, length)
    ELSE \/ SubOverflows(r.limits.start, length)
         \/ AddOverflows(WrapSub(r.limits.start, length), length)

\* The while-let loop of find_free over the windows ws from index i.
\* The result carries the returned line and whether any arithmetic step
\* left the unsigned domain on the way.
RECURSIVE Search(_, _, _, _)
Search(ws, length, front, i) ==
    IF i > Len(ws) THEN [result |-> "OutOfSpace", line |-> Line(0, 0), overflow |-> FALSE]
    ELSE
        LET l == ws[i][1]
            r == ws[i][2]
            spanOverflows == SubOverflows(r.limits.end, l.limits.start)
        IN  IF Accepts(l, r, length)
                THEN [result |-> "Ok",
                      line |-> IF front THEN FrontLocation(l, r, length)
                                        ELSE BackLocation(l, r, length),
                      overflow |-> spanOverflows
                                   \/ LocationOverflows(l, r, length, front)]
            ELSE LET rest == Search(ws, length, front, i + 1)
                 IN  [rest EXCEPT !.overflow = spanOverflows \/ rest.overflow]

\* find_free(len, front) on the ledger (lim, regs, n).  checks is the build's
\* overflow-checks setting: with it an overflowing step panics, without it
\* the step wraps.
FindFree(lim, regs, n, length, front, checks) ==
    LET ws == IF front THEN Windows(lim, regs, n) ELSE Reverse(Windows(lim, regs, n))
        s == Search(ws, length, front, 1)
    IN  IF s.overflow /\ checks
            THEN [result |-> "Panic", line |-> Line(0, 0), overflow |-> TRUE]
            ELSE s

----------------------------------------------------------------------------
(* The state machine *)

\* The windows a ledger is constructed with (start <= end): the whole
\* address word, and a window strictly inside it.
InitLimits == {Line(0, MaxAddr), Line(1, MaxAddr - 1)}

\* The regions a caller may pass to insert, valid or not.
InputRegions == {Region(Line(s, e), v) : s \in Addrs, e \in Addrs, v \in Values}

\* The lengths a caller may pass to find_free.
InputLengths == Addrs

NoCall == [op |-> "new"]

\* Ledger::new(limits)
Init ==
    /\ limits \in InitLimits
    /\ regions = [k \in 1 .. N |-> Empty]
    /\ len = 0
    /\ overflowChecks \in BOOLEAN
    /\ last = NoCall

\* A call of insert(region).
InsertCall ==
    \E region \in InputRegions :
        LET out == Insert(limits, regions, len, region)
        IN  /\ regions' = out.regions
            /\ len' = out.len
            /\ last' = [op |-> "insert", region |-> region, result |-> out.result]
            /\ UNCHANGED <<limits, overflowChecks>>

\* A find_free that reserves the location it returns.
FindFreeCallReserving ==
    \E length \in InputLengths, front \in BOOLEAN :
        LET out == FindFree(limits, regions, len, length, front, overflowChecks)
            res == IF out.result = "Ok"
                     THEN Insert(limits, regions, len, Region(out.line, "None"))
                     ELSE Returned(out.result, regions, len)
        IN  /\ last' = [op |-> "find_free", length |-> length, front |-> front,
                        result |-> out.result, line |-> out.line,
                        overflow |-> out.overflow]
            /\ regions' = res.regions
            /\ len' = res.len
            /\ UNCHANGED <<limits, overflowChecks>>

\* A call of find_free(length, front).
FindFreeCall ==
    \E length \in InputLengths, front \in BOOLEAN :
        LET out == FindFree(limits, regions, len, length, front, overflowChecks)
        IN  /\ last' = [op |-> "find_free", length |-> length, front |-> front,
                        result |-> out.result, line |-> out.line,
                        overflow |-> out.overflow]
            /\ UNCHANGED <<limits, regions, len, overflowChecks>>

Next == InsertCall \/ FindFreeCall

Spec == Init /\ [][Next]_vars

----------------------------------------------------------------------------
(* The public view and the vocabulary of the properties *)

\* Ledger::regions(): the first len slots.
Regions == [k \in 1 .. len |-> regions[k]]

\* Two half-open intervals have an address in common.
Meets(a, b) ==
    \E x \in Addrs : a.start <= x /\ x < a.end /\ b.start <= x /\ x < b.end

\* An interval lies inside the ledger's limits.
WithinLimits(l) == limits.start <= l.start /\ l.end <= limits.end

\* A region that passes the validity checks of insert.
ValidInput(region) ==
    region.limits.start < region.limits.end /\ WithinLimits(region.limits)

\* Two intervals touch end to start.
Touches(a, b) == a.end = b.start \/ a.start = b.end

\* The active range k carries the tag of region and touches it.
MergeCandidate(k, region) ==
    /\ regions[k].value = region.value
    /\ Touches(regions[k].limits, region.limits)

\* region intersects some active range.
IntersectsActive(region) ==
    \E k \in 1 .. len : Meets(regions[k].limits, region.limits)

\* The smallest interval covering two touching intervals.
Union(a, b) ==
    Line(IF a.start <= b.start THEN a.start ELSE b.start,
         IF a.end >= b.end THEN a.end ELSE b.end)

\* The sizes of the free gaps of the address space, low to high.
Gaps ==
    IF len = 0 THEN <<limits.end - limits.start>>
    ELSE <<regions[1].limits.start - limits.start>>
         \o [k \in 1 .. len - 1 |->
                regions[k + 1].limits.start - regions[k].limits.end]
         \o <<limits.end - regions[len].limits.end>>

InsertCalled == last.op = "insert"
FindFreeCalled == last.op = "find_free"

----------------------------------------------------------------------------
(* Properties *)

\* C1: after any sequence of insert calls no two active ranges intersect
\* and every active range lies within the limits of the ledger.
NonOverlapWithinLimits ==
    /\ \A i, j \in 1 .. len :
          i # j => ~Meets(regions[i].limits, regions[j].limits)
    /\ \A i \in 1 .. len : WithinLimits(regions[i].limits)

\* C1 witness: a full ledger reached by a successful insert.
NonOverlapWitness ==
    InsertCalled /\ last.result = "Ok" /\ len = N

\* C2 (as claimed): a location returned by find_free for a positive length
\* is accepted by an immediate insert of any tag, unless capacity is
\* exhausted.
FindFreeThenInsert ==
    (FindFreeCalled /\ last.result = "Ok" /\ last.length > 0) =>
        \A v \in Values :
            Insert(limits, regions, len, Region(last.line, v)).result
                \in {"Ok", "OutOfCapacity"}

\* C3 (as claimed): inserting a valid, non-overlapping range that touches
\* an active range of equal tag keeps the active count and extends such a
\* range to the union of the two intervals.
MergeCorrectness ==
    [][(/\ last'.op = "insert"
        /\ ValidInput(last'.region)
        /\ ~IntersectsActive(last'.region)
        /\ \E k \in 1 .. len : MergeCandidate(k, last'.region))
       => /\ len' = len
          /\ \E k \in 1 .. len :
                /\ MergeCandidate(k, last'.region)
                /\ regions'[k] =
                     Region(Union(regions[k].limits, last'.region.limits),
                            regions[k].value)]_vars

\* C4: the active ranges are strictly ascending by start address.
StrictlyAscending ==
    \A i, j \in 1 .. len :
        i < j => regions[i].limits.start < regions[j].limits.start

\* C4 witness: an appended range that the sort moved in front of others.
StrictlyAscendingWitness ==
    /\ InsertCalled /\ last.result = "Ok" /\ len >= 2
    /\ regions[1] = last.region

\* C5: an insert that returns InvalidRegion or Overlap leaves the active
\* count and every active range as they were.
RejectionIsSideEffectFree ==
    [][(last'.op = "insert" /\ last'.result \in {"InvalidRegion", "Overlap"})
       => (len' = len /\ regions' = regions)]_vars

\* C5 witness: Overlap was returned for a range that touches an active
\* range of equal tag at that range's end.
RejectionWitness ==
    /\ InsertCalled /\ last.result = "Overlap"
    /\ \E k \in 1 .. len :
          /\ regions[k].value = last.region.value
          /\ regions[k].limits.end = last.region.limits.start

\* C6: for a range that passes the validity checks, insert returns Overlap
\* exactly when the range intersects an active range.
OverlapIffIntersects ==
    [][(last'.op = "insert" /\ ValidInput(last'.region))
       => (last'.result = "Overlap" <=> IntersectsActive(last'.region))]_vars

\* C6 witness: Overlap was returned although an equal-tag merge candidate
\* stands earlier in the array than the intersected range.
OverlapWitness ==
    /\ InsertCalled /\ last.result = "Overlap" /\ ValidInput(last.region)
    /\ \E i, j \in 1 .. len :
          /\ i < j
          /\ MergeCandidate(i, last.region)
          /\ Meets(regions[j].limits, last.region.limits)

\* C7 (as claimed): insert returns OutOfCapacity only when every slot is in
\* use and no active range of equal tag touches the incoming range.
OutOfCapacityOnlyWithoutMerge ==
    [][(last'.op = "insert" /\ last'.result = "OutOfCapacity")
       => /\ len = N
          /\ ~ \E k \in 1 .. len : MergeCandidate(k, last'.region)]_vars

\* C8: once every slot is in use and no merge applies, a valid
\* non-overlapping insert fails with OutOfCapacity and changes nothing; the
\* active count never exceeds N.
CapacityCeiling ==
    /\ [](len <= N)
    /\ [][(/\ last'.op = "insert"
           /\ len = N
           /\ ValidInput(last'.region)
           /\ ~IntersectsActive(last'.region)
           /\ ~ \E k \in 1 .. len : MergeCandidate(k, last'.region))
          => /\ last'.result = "OutOfCapacity"
             /\ len' = len
             /\ regions' = regions]_vars

\* C8 witness: a full ledger refused a valid range that touches no active
\* range of equal tag.
CapacityWitness ==
    /\ InsertCalled /\ last.result = "OutOfCapacity" /\ len = N
    /\ ~ \E k \in 1 .. len : MergeCandidate(k, last.region)

\* C9 (as claimed): find_free returns OutOfSpace exactly when no free gap
\* of the address space has size >= the requested length.
OutOfSpaceIffNoGap ==
    FindFreeCalled =>
        (last.result = "OutOfSpace"
            <=> ~ \E k \in 1 .. Len(Gaps) : Gaps[k] >= last.length)

\* C10 (as claimed): every call returns Ok or one of the four errors, and
\* the address arithmetic of find_free stays inside the unsigned domain.
NoPanic ==
    /\ InsertCalled =>
          last.result \in {"Ok", "InvalidRegion", "Overlap", "OutOfCapacity"}
    /\ FindFreeCalled =>
          (last.result \in {"Ok", "OutOfSpace"} /\ ~last.overflow)

\* C11: insert returns InvalidRegion exactly when the range is empty or
\* reversed, starts below the lower limit or ends above the upper limit;
\* an invalid range that also intersects an active range is InvalidRegion.
InvalidRegionIffOutside ==
    InsertCalled =>
        (last.result = "InvalidRegion"
            <=> \/ last.region.limits.start >= last.region.limits.end
                \/ last.region.limits.start < limits.start
                \/ last.region.limits.end > limits.end)

\* C11 witness: a range that spans the limits exactly was accepted.
InvalidRegionWitness ==
    /\ InsertCalled /\ last.result = "Ok"
    /\ last.region.limits = limits

\* C12: a call of find_free, whatever it returns, leaves the limits, the
\* active count and every slot as they were.
FindFreeMutatesNothing ==
    [][last'.op = "find_free"
       => (limits' = limits /\ len' = len /\ regions' = regions)]_vars

\* C12 witness: find_free returned a location on a ledger holding ranges.
FindFreeWitness ==
    FindFreeCalled /\ last.result = "Ok" /\ len >= 1 /\ last.length >= 1

\* C13: when the incoming range exactly fills the gap between two active
\* ranges that both carry its tag, insert succeeds, the left range's end
\* becomes the incoming end, and the right range and the active count stay
\* as they were.
SingleMerge ==
    [][\A i \in 1 .. len - 1 :
          (/\ last'.op = "insert"
           /\ regions[i].value = last'.region.value
           /\ regions[i + 1].value = last'.region.value
           /\ last'.region.limits.start = regions[i].limits.end
           /\ last'.region.limits.end = regions[i + 1].limits.start
           /\ last'.region.limits.start < last'.region.limits.end)
          => /\ last'.result = "Ok"
             /\ len' = len
             /\ regions' =
                  [regions EXCEPT ![i].limits.end = last'.region.limits.end]]_vars

\* C13 witness: after a successful insert the extended left range ends where
\* the inserted range ends and touches a right neighbour of the same tag.
SingleMergeWitness ==
    /\ InsertCalled /\ last.result = "Ok"
    /\ \E i \in 1 .. len - 1 :
          /\ regions[i].value = last.region.value
          /\ regions[i + 1].value = last.region.value
          /\ regions[i].limits.start < last.region.limits.start
          /\ regions[i].limits.end = last.region.limits.end
          /\ regions[i + 1].limits.start = last.region.limits.end

\* C14 (as claimed): in find_free, for every window with a zero-width outer
\* marker as a member, the span compared with the requested length equals
\* the free gap of the window, right.start - left.end.
OuterSpanIsGap ==
    FindFreeCalled =>
        LET ws == Windows(limits, regions, len)
        IN  \A k \in 1 .. Len(ws) :
                (ws[k][1] = StartMarker(limits) \/ ws[k][2] = EndMarker(limits))
                => Span(ws[k][1], ws[k][2])
                     = ws[k][2].limits.start - ws[k][1].limits.end

\* C15: every range visible through regions() has start < end.
ActiveRangesNonEmpty ==
    \A k \in 1 .. len : regions[k].limits.start < regions[k].limits.end

\* C15 witness: a zero-length range inside the limits was offered to a
\* ledger that holds ranges and still has sentinel slots, and was refused.
NonEmptyWitness ==
    /\ InsertCalled /\ last.result = "InvalidRegion"
    /\ last.region.limits.start = last.region.limits.end
    /\ WithinLimits(last.region.limits)
    /\ len >= 1 /\ len < N

\* The (address, tag) pairs of a region.
Pairs(region) ==
    {<<x, region.value>> :
        x \in {a \in Addrs : region.limits.start <= a /\ a < region.limits.end}}

\* The (address, tag) pairs covered by the active ranges.
Covered == UNION {Pairs(regions[k]) : k \in 1 .. len}

\* C16: the pairs covered by the active ranges are exactly the pairs of the
\* ranges whose insert returned Ok: nothing is covered at construction, a
\* successful insert adds exactly the pairs of its range, and a failed
\* insert adds and removes nothing.
CoverageIsExact ==
    /\ Covered = {}
    /\ [][last'.op = "insert"
          => Covered' = IF last'.result = "Ok"
                          THEN Covered \cup Pairs(last'.region)
                          ELSE Covered]_vars

\* C16 witness: a successful insert next to an active range of another tag,
\* which was left with its own tag.
CoverageWitness ==
    /\ InsertCalled /\ last.result = "Ok"
    /\ \E j, k \in 1 .. len :
          /\ regions[j].value = last.region.value
          /\ regions[j].limits.end = last.region.limits.end
          /\ regions[k].value # last.region.value
          /\ regions[k].limits.start = last.region.limits.end

====
